---- MODULE Spec2Model ----
(***************************************************************************)
(* Recursive access-control change loop of the async data lake PathClient  *)
(* (aio/_path_client_async.py): the three entry operations                 *)
(* set/update/remove_access_control_recursive and the batch loop           *)
(* _set_access_control_internal.  One invocation is modelled, with its     *)
(* suspension points (the awaited batch call and the awaited progress      *)
(* callback) as separate steps.                                            *)
(***************************************************************************)
EXTENDS Integers, Sequences, FiniteSets, TLC

VARIABLES pc, error, result,
          options, progress_callback, max_batch,
          total_directories_successful, total_files_success, total_failure_count,
          batch_count, last_continuation_token, current_continuation_token,
          continue_operation,
          awaiting, requests, responses, reports,
          invoked, failed_calls,
          scenario, server, parked, cancelled

vars == <<pc, error, result, options, progress_callback, max_batch,
          total_directories_successful, total_files_success, total_failure_count,
          batch_count, last_continuation_token, current_continuation_token,
          continue_operation, awaiting, requests, responses, reports,
          invoked, failed_calls, scenario, server, parked, cancelled>>

\* What the environment of the running invocation consists of: the scenario
\* explored, the scripted server if there is one, the other invocations of
\* the client (suspended or finished), and whether the caller cancelled.
world == <<scenario, server, parked, cancelled>>

\* ------------------------------------------------------------------ bounds
\* Longest run explored: the server answers at most this many batch calls.
MaxBatches == 3

\* Longest run explored when two invocations are interleaved.
MaxPairBatches == 2

\* ------------------------------------------------------------------ values
\* Python None for string-valued fields (acl, continuation tokens).
None == "<None>"

\* Python None for the integer-valued max_batch and batch_size keywords.
NoneInt == -1

\* bool(x) of a str-or-None value: None and the empty string are falsy.
bool(x) == x # None /\ x # ""

NoResult == [none |-> TRUE]

\* The arguments of the entry operation that was called (none yet).
NotInvoked == [operation |-> None, acl |-> None, continuation |-> None,
               batch_size |-> NoneInt, max_batch |-> NoneInt,
               progress_callback |-> FALSE]

\* ------------------------------------------------------------------ inputs
AclInputs == {None, "", "user::rwx"}

ContinuationInputs ==
    {None, "TOK0"} \cup (IF scenario = "resume" THEN {"TOK1", "TOK2"} ELSE {})

\* batch_size: left out, or a value between 1 and 2000.
BatchSizeInputs == {NoneInt, 2000}

MaxBatchInputs == {NoneInt} \cup (0 .. MaxBatches - 1)

\* Continuation header values the service can send back: absent, empty, or
\* one of two distinct opaque tokens.
ServerTokens ==
    CASE scenario = "pair" -> {None, "TOK1"}
      [] scenario = "resume" -> {None, "TOK1", "TOK2"}
      [] scenario = "live" -> {None, "", "TOK1"}
      [] OTHER -> {None, "", "TOK1", "TOK2"}

\* Bodies of SetAccessControlRecursiveResponse the service can send back.
AllServerBodies ==
    { [directories_successful |-> 2, files_successful |-> 5, failure_count |-> 1,
       failed_entries |-> << [name |-> "d/f1", type |-> "FILE", error_message |-> "denied"] >>],
      [directories_successful |-> 1, files_successful |-> 0, failure_count |-> 0,
       failed_entries |-> << >>],
      [directories_successful |-> 0, files_successful |-> 4, failure_count |-> 0,
       failed_entries |-> << >>],
      [directories_successful |-> 0, files_successful |-> 3, failure_count |-> 2,
       failed_entries |-> << [name |-> "d/sub", type |-> "DIRECTORY", error_message |-> "conflict"],
                             [name |-> "d/f2", type |-> "FILE", error_message |-> "denied"] >>] }

ServerBodies ==
    IF scenario \in {"pair", "resume", "live"}
    THEN {b \in AllServerBodies : b.failure_count < 2 /\ b.files_successful # 4}
    ELSE AllServerBodies

\* The scripted server of the resume scenario: what it answers to a request
\* is a function of the request's continuation token.
NoServer == << >>

ScriptedServers ==
    [{None, "TOK1", "TOK2"} ->
        [resp : {b \in AllServerBodies : b.failure_count < 2}, continuation : {None, "TOK1", "TOK2"}]]

ServerMayAnswer(request, body, token) ==
    scenario = "resume" =>
        server[request.continuation] = [resp |-> body, continuation |-> token]

\* How many batch calls the server answers in one run.
BatchBound == IF scenario = "pair" THEN MaxPairBatches ELSE MaxBatches

\* ------------------------------------------------------------------ helpers
\* `if not acl:` of the three entry operations.
AclMissingNoneOnly(acl) == acl = None

AclMissing(acl) == ~bool(acl)

\* self._set_access_control_recursive_options(mode, acl=acl, **kwargs): the
\* keyword arguments of the generated batch call.
_set_access_control_recursive_options(mode, acl, continuation, batch_size) ==
    [mode |-> mode, acl |-> acl, continuation |-> continuation, max_records |-> batch_size]

\* process_storage_error(error): always raises the translated error.
process_storage_error(e) == "HttpResponseError"

AccessControlChangeCounters(d, f, c) ==
    [directories_successful |-> d, files_successful |-> f, failure_count |-> c]

\* The running tally after one more response.
TallyDropFailures(resp) ==
    AccessControlChangeCounters(total_directories_successful + resp.directories_successful,
                                total_files_success + resp.files_successful,
                                total_failure_count)

Tally(resp) ==
    AccessControlChangeCounters(total_directories_successful + resp.directories_successful,
                                total_files_success + resp.files_successful,
                                total_failure_count + resp.failure_count)

\* last_continuation_token after reading the batch's continuation header.
NextLastTokenAlways(last, current) == current

\* last_continuation_token, but only the first token is ever recorded.
NextLastTokenKeepsFirst(last, current) == IF last = None THEN current ELSE last

NextLastToken(last, current) == IF current # None THEN current ELSE last

\* One AccessControlChangeFailure per failed entry, but with the test of
\* the entry's type the wrong way round.
AccessControlChangeFailureInverted(failure) ==
    [name |-> failure.name,
     is_directory |-> (failure.type # "DIRECTORY"),
     error_message |-> failure.error_message]

AccessControlChangeFailure(failure) ==
    [name |-> failure.name,
     is_directory |-> (failure.type = "DIRECTORY"),
     error_message |-> failure.error_message]

\* The AccessControlChanges object handed to the progress callback.
AccessControlChangesSwapped(resp, totals, last) ==
    [batch_counters |-> totals,
     aggregate_counters |-> AccessControlChangeCounters(resp.directories_successful,
                                                        resp.files_successful,
                                                        resp.failure_count),
     batch_failures |-> [i \in 1 .. Len(resp.failed_entries) |->
                            AccessControlChangeFailure(resp.failed_entries[i])],
     continuation |-> last]

AccessControlChanges(resp, totals, last) ==
    [batch_counters |-> AccessControlChangeCounters(resp.directories_successful,
                                                    resp.files_successful,
                                                    resp.failure_count),
     aggregate_counters |-> totals,
     batch_failures |-> [i \in 1 .. Len(resp.failed_entries) |->
                            AccessControlChangeFailure(resp.failed_entries[i])],
     continuation |-> last]

\* last_continuation_token before the first batch: None, whatever
\* continuation the caller put into the options.
InitialLastTokenFromOptions(opts) == opts.continuation

InitialLastToken(opts) == None

\* options['continuation'] = current_continuation_token.
UpdateContinuationForgotten(opts, current) == opts

UpdateContinuationResetsBatchSize(opts, current) ==
    [opts EXCEPT !.continuation = current, !.max_records = NoneInt]

UpdateContinuation(opts, current) == [opts EXCEPT !.continuation = current]

\* max_batch_satisfied of the loop tail.
MaxBatchSatisfiedOffByOne(mb, count) == mb # NoneInt /\ count = mb + 1

MaxBatchSatisfied(mb, count) == mb # NoneInt /\ count = mb

\* continue_operation of the loop tail.
ContinueOperationNotNone(current, satisfied) == current # None /\ ~satisfied

\* continue_operation, but the max_batch cap is left out of the loop test.
ContinueOperationIgnoresCap(current, satisfied) == bool(current)

ContinueOperation(current, satisfied) == bool(current) /\ ~satisfied

\* The continuation of the returned AccessControlChangeResult.
ResultContinuationAlwaysLast(last, current, failures) == last

ResultContinuationInverted(last, current, failures) ==
    IF failures > 0 THEN current ELSE last

ResultContinuation(last, current, failures) ==
    IF failures > 0 THEN last ELSE current

AccessControlChangeResult(totals, continuation) ==
    [counters |-> totals, continuation |-> continuation]

\* ------------------------------------------------------------------ state
InitInvocation ==
    /\ pc = "start"
    /\ error = None
    /\ result = NoResult
    /\ options = _set_access_control_recursive_options(None, None, None, NoneInt)
    /\ progress_callback = FALSE
    /\ max_batch = NoneInt
    /\ total_directories_successful = 0
    /\ total_files_success = 0
    /\ total_failure_count = 0
    /\ batch_count = 0
    /\ last_continuation_token = None
    /\ current_continuation_token = None
    /\ continue_operation = TRUE
    /\ awaiting = {}
    /\ requests = << >>
    /\ responses = << >>
    /\ reports = << >>
    /\ invoked = NotInvoked
    /\ failed_calls = {}

Init ==
    /\ InitInvocation
    /\ scenario = "single"
    /\ server = NoServer
    /\ parked = << >>
    /\ cancelled = NoneInt

BatchWait(n) == [kind |-> "batch", n |-> n]

CallbackWait(n) == [kind |-> "callback", n |-> n]

\* `await self._client.path.set_access_control_recursive(**options)`: the
\* request leaves with the current options and the coroutine suspends.
\* `pending` are the waits of this invocation that are still outstanding.
IssueCall(opts, pending) ==
    /\ requests' = Append(requests, opts)
    /\ awaiting' = pending \cup {BatchWait(Len(requests) + 1)}
    /\ pc' = "await_batch"
    /\ UNCHANGED <<result, error>>

\* Normal loop exit: the AccessControlChangeResult is built and returned.
Return(pending) ==
    /\ result' = AccessControlChangeResult(
                     AccessControlChangeCounters(total_directories_successful',
                                                 total_files_success',
                                                 total_failure_count'),
                     ResultContinuation(last_continuation_token',
                                        current_continuation_token',
                                        total_failure_count'))
    /\ awaiting' = pending
    /\ pc' = "returned"
    /\ UNCHANGED <<requests, error>>

\* The tail of one loop iteration, the loop test, and what follows it: the
\* next batch call or the return.  Reads the tallies of the same step.
LoopTail(pending) ==
    /\ continue_operation' =
           ContinueOperation(current_continuation_token',
                             MaxBatchSatisfied(max_batch, batch_count'))
    /\ options' = UpdateContinuation(options, current_continuation_token')
    /\ IF continue_operation' THEN IssueCall(options', pending) ELSE Return(pending)

\* `await progress_callback(AccessControlChanges(...))`, but the coroutine
\* is scheduled and not awaited: the loop goes on while it runs.
ReportProgressNotAwaited(resp, pending) ==
    /\ reports' = Append(reports,
                         AccessControlChanges(resp, Tally(resp), last_continuation_token'))
    /\ LoopTail(pending \cup {CallbackWait(Len(reports) + 1)})

\* `await progress_callback(AccessControlChanges(...))`, but the report is
\* built before last_continuation_token takes this batch's token.
ReportProgressStaleToken(resp, pending) ==
    /\ reports' = Append(reports,
                         AccessControlChanges(resp, Tally(resp), last_continuation_token))
    /\ awaiting' = pending \cup {CallbackWait(Len(reports) + 1)}
    /\ pc' = "await_callback"
    /\ UNCHANGED <<continue_operation, options, requests, result, error>>

\* `await progress_callback(AccessControlChanges(...))`: the callback is
\* invoked with the report and the loop suspends until it completes.
ReportProgress(resp, pending) ==
    /\ reports' = Append(reports,
                         AccessControlChanges(resp, Tally(resp), last_continuation_token'))
    /\ awaiting' = pending \cup {CallbackWait(Len(reports) + 1)}
    /\ pc' = "await_callback"
    /\ UNCHANGED <<continue_operation, options, requests, result, error>>

\* `except StorageErrorException as error: process_storage_error(error)`,
\* but the failed call is issued again.
ExceptRetry(pending) ==
    /\ IssueCall(options, pending)
    /\ UNCHANGED <<options, continue_operation>>

\* `except StorageErrorException as error: process_storage_error(error)`,
\* but the handler returns a result with the totals accumulated so far.
ExceptReturnsPartial(pending) ==
    /\ result' = AccessControlChangeResult(
                     AccessControlChangeCounters(total_directories_successful,
                                                 total_files_success,
                                                 total_failure_count),
                     last_continuation_token)
    /\ pc' = "returned"
    /\ awaiting' = pending
    /\ UNCHANGED <<error, requests, options, continue_operation>>

\* `except StorageErrorException as error: process_storage_error(error)`.
ExceptStorageErrorException(pending) ==
    /\ error' = process_storage_error("StorageErrorException")
    /\ pc' = "raised"
    /\ awaiting' = pending
    /\ UNCHANGED <<result, requests, options, continue_operation>>

\* ------------------------------------------------------------------ actions
\* Which calls the caller makes in the scenario explored.  One invocation:
\* any.  Two interleaved invocations: fresh runs with a valid ACL.  Resume:
\* an uncapped run, then a capped run of the same operation, then a run of
\* the same operation from the continuation the capped run returned.
CallerMayCall(operation, acl, continuation, batch_size, mb, cb) ==
    CASE scenario = "pair" ->
            /\ bool(acl) /\ continuation = None /\ batch_size = NoneInt
            /\ mb \in {NoneInt, 1}
      [] scenario = "resume" ->
            /\ bool(acl) /\ batch_size = NoneInt
            /\ Len(parked) > 0 => /\ operation = parked[1].invoked.operation
                                  /\ cb = parked[1].invoked.progress_callback
            /\ CASE Len(parked) = 0 -> continuation = None /\ mb = NoneInt
                 [] Len(parked) = 1 -> continuation = None /\ mb # NoneInt
                 [] OTHER -> /\ continuation = parked[2].result.continuation
                             /\ mb = NoneInt
      [] scenario = "live" ->
            bool(acl) /\ continuation = None /\ batch_size = NoneInt
      [] OTHER -> TRUE

\* The body shared by the three entry operations, run up to the first await.
EntryOperation(operation, mode) ==
    /\ pc = "start"
    /\ UNCHANGED <<failed_calls, world>>
    /\ \E acl \in AclInputs, continuation \in ContinuationInputs,
          batch_size \in BatchSizeInputs, mb \in MaxBatchInputs, cb \in BOOLEAN :
         /\ CallerMayCall(operation, acl, continuation, batch_size, mb, cb)
         /\ invoked' = [operation |-> operation, acl |-> acl,
                        continuation |-> continuation, batch_size |-> batch_size,
                        max_batch |-> mb, progress_callback |-> cb]
         /\ IF AclMissing(acl)
            THEN /\ error' = "ValueError"
                 /\ pc' = "raised"
                 /\ UNCHANGED <<result, options, progress_callback, max_batch,
                                total_directories_successful, total_files_success,
                                total_failure_count, batch_count, last_continuation_token,
                                current_continuation_token, continue_operation,
                                awaiting, requests, responses, reports>>
            ELSE /\ progress_callback' = cb
                 /\ max_batch' = mb
                 /\ options' = _set_access_control_recursive_options(mode, acl, continuation,
                                                                      batch_size)
                 /\ total_directories_successful' = 0
                 /\ total_files_success' = 0
                 /\ total_failure_count' = 0
                 /\ batch_count' = 0
                 /\ last_continuation_token' = InitialLastToken(options')
                 /\ current_continuation_token' = None
                 /\ continue_operation' = TRUE
                 /\ IssueCall(options', {})
                 /\ UNCHANGED <<responses, reports>>

set_access_control_recursive ==
    EntryOperation("set_access_control_recursive", "set")

update_access_control_recursive ==
    EntryOperation("update_access_control_recursive", "modify")

remove_access_control_recursive ==
    EntryOperation("remove_access_control_recursive", "remove")

\* The awaited batch call returns (headers, resp): one loop iteration up to
\* its next suspension point or to the return.
BatchReturns ==
    /\ pc = "await_batch"
    /\ Len(responses) < BatchBound
    /\ UNCHANGED world
    /\ \E body \in ServerBodies, token \in ServerTokens :
         /\ ServerMayAnswer(requests[Len(requests)], body, token)
         /\ LET pending == awaiting \ {BatchWait(Len(requests))}
                totals == Tally(body)
            IN /\ responses' = Append(responses, [resp |-> body, continuation |-> token])
               /\ total_directories_successful' = totals.directories_successful
               /\ total_files_success' = totals.files_successful
               /\ total_failure_count' = totals.failure_count
               /\ batch_count' = batch_count + 1
               /\ current_continuation_token' = token
               /\ last_continuation_token' = NextLastToken(last_continuation_token, token)
               /\ IF progress_callback
                  THEN ReportProgress(body, pending)
                  ELSE LoopTail(pending) /\ UNCHANGED reports
               /\ UNCHANGED <<progress_callback, max_batch, invoked, failed_calls>>

\* The awaited batch call raises StorageErrorException.
BatchFails ==
    /\ pc = "await_batch"
    /\ UNCHANGED world
    /\ failed_calls' = failed_calls \cup {Len(requests)}
    /\ ExceptStorageErrorException(awaiting \ {BatchWait(Len(requests))})
    /\ UNCHANGED <<progress_callback, max_batch, total_directories_successful,
                   total_files_success, total_failure_count, batch_count,
                   last_continuation_token, current_continuation_token,
                   responses, reports, invoked>>

\* The awaited progress callback completes, but the loop tail is skipped
\* when there is a callback: the same request is sent again.
CallbackReturnsSkipsTail ==
    /\ pc = "await_callback"
    /\ UNCHANGED world
    /\ UNCHANGED <<progress_callback, max_batch, total_directories_successful,
                   total_files_success, total_failure_count, batch_count,
                   last_continuation_token, current_continuation_token,
                   responses, reports, invoked, failed_calls,
                   options, continue_operation>>
    /\ IssueCall(options, awaiting \ {CallbackWait(Len(reports))})

\* The awaited progress callback completes: the rest of the iteration.
CallbackReturns ==
    /\ pc = "await_callback"
    /\ UNCHANGED world
    /\ UNCHANGED <<progress_callback, max_batch, total_directories_successful,
                   total_files_success, total_failure_count, batch_count,
                   last_continuation_token, current_continuation_token,
                   responses, reports, invoked, failed_calls>>
    /\ LoopTail(awaiting \ {CallbackWait(Len(reports))})

Next ==
    \/ set_access_control_recursive
    \/ update_access_control_recursive
    \/ remove_access_control_recursive
    \/ BatchReturns
    \/ BatchFails
    \/ CallbackReturns

Spec == Init /\ [][Next]_vars

\* ------------------------------------------------------------------ cancellation
\* The caller cancels the task while it is suspended in the awaited batch
\* call or progress callback: CancelledError is raised at the await, but
\* the partial totals are returned as a result.
CancelledReturnsPartial(pending) ==
    /\ Return(pending)
    /\ UNCHANGED <<options, continue_operation>>

\* CancelledError raised at the await is not a StorageErrorException: the
\* except clause does not catch it, the return statement is not reached
\* and the error leaves the coroutine.
PropagateCancelledError(pending) ==
    /\ error' = "CancelledError"
    /\ pc' = "raised"
    /\ awaiting' = pending
    /\ UNCHANGED <<result, requests, options, continue_operation>>

Cancel ==
    /\ pc \in {"await_batch", "await_callback"}
    /\ cancelled = NoneInt
    /\ cancelled' = Len(requests)
    /\ UNCHANGED <<progress_callback, max_batch, total_directories_successful,
                   total_files_success, total_failure_count, batch_count,
                   last_continuation_token, current_continuation_token,
                   responses, reports, invoked, failed_calls,
                   scenario, server, parked>>
    /\ PropagateCancelledError({})

NextCancel ==
    \/ set_access_control_recursive
    \/ update_access_control_recursive
    \/ remove_access_control_recursive
    \/ BatchReturns
    \/ BatchFails
    \/ CallbackReturns
    \/ Cancel

SpecCancel == Init /\ [][NextCancel]_vars

\* ------------------------------------------------------------------ several invocations
\* Everything one invocation holds: its arguments, the locals of
\* _set_access_control_internal, its options dict, its position, and what
\* it has sent, received and reported so far.
Frame ==
    [pc |-> pc, error |-> error, result |-> result, options |-> options,
     progress_callback |-> progress_callback, max_batch |-> max_batch,
     total_directories_successful |-> total_directories_successful,
     total_files_success |-> total_files_success,
     total_failure_count |-> total_failure_count,
     batch_count |-> batch_count,
     last_continuation_token |-> last_continuation_token,
     current_continuation_token |-> current_continuation_token,
     continue_operation |-> continue_operation,
     awaiting |-> awaiting, requests |-> requests, responses |-> responses,
     reports |-> reports, invoked |-> invoked, failed_calls |-> failed_calls]

\* An invocation that has not been called yet.
InitFrame ==
    [pc |-> "start", error |-> None, result |-> NoResult,
     options |-> _set_access_control_recursive_options(None, None, None, NoneInt),
     progress_callback |-> FALSE, max_batch |-> NoneInt,
     total_directories_successful |-> 0, total_files_success |-> 0,
     total_failure_count |-> 0, batch_count |-> 0,
     last_continuation_token |-> None, current_continuation_token |-> None,
     continue_operation |-> TRUE,
     awaiting |-> {}, requests |-> << >>, responses |-> << >>,
     reports |-> << >>, invoked |-> NotInvoked, failed_calls |-> {}]

\* The event loop runs invocation f, but the running totals live on the
\* client object instead of in locals.
ResumeInvocationSharedTotals(f) ==
    /\ pc' = f.pc
    /\ error' = f.error
    /\ result' = f.result
    /\ options' = f.options
    /\ progress_callback' = f.progress_callback
    /\ max_batch' = f.max_batch
    /\ UNCHANGED <<total_directories_successful, total_files_success,
                   total_failure_count>>
    /\ batch_count' = f.batch_count
    /\ last_continuation_token' = f.last_continuation_token
    /\ current_continuation_token' = f.current_continuation_token
    /\ continue_operation' = f.continue_operation
    /\ awaiting' = f.awaiting
    /\ requests' = f.requests
    /\ responses' = f.responses
    /\ reports' = f.reports
    /\ invoked' = f.invoked
    /\ failed_calls' = f.failed_calls

\* The event loop runs invocation f: every local of the coroutine and its
\* options dict are the invocation's own, so all of them are f's.
ResumeInvocation(f) ==
    /\ pc' = f.pc
    /\ error' = f.error
    /\ result' = f.result
    /\ options' = f.options
    /\ progress_callback' = f.progress_callback
    /\ max_batch' = f.max_batch
    /\ total_directories_successful' = f.total_directories_successful
    /\ total_files_success' = f.total_files_success
    /\ total_failure_count' = f.total_failure_count
    /\ batch_count' = f.batch_count
    /\ last_continuation_token' = f.last_continuation_token
    /\ current_continuation_token' = f.current_continuation_token
    /\ continue_operation' = f.continue_operation
    /\ awaiting' = f.awaiting
    /\ requests' = f.requests
    /\ responses' = f.responses
    /\ reports' = f.reports
    /\ invoked' = f.invoked
    /\ failed_calls' = f.failed_calls

\* Two invocations on one event loop: the running one is suspended at an
\* await (or has ended) and the loop runs the other one.
Switch ==
    /\ scenario = "pair"
    /\ pc # "start"
    /\ parked' = << Frame >>
    /\ ResumeInvocation(parked[1])
    /\ UNCHANGED <<scenario, server, cancelled>>

InitPair ==
    /\ InitInvocation
    /\ scenario = "pair"
    /\ server = NoServer
    /\ parked = << InitFrame >>
    /\ cancelled = NoneInt

NextPair ==
    \/ set_access_control_recursive
    \/ update_access_control_recursive
    \/ remove_access_control_recursive
    \/ BatchReturns
    \/ BatchFails
    \/ CallbackReturns
    \/ Switch

SpecPair == InitPair /\ [][NextPair]_vars

\* The caller's run has returned and the caller makes its next call.
StartNext ==
    /\ scenario = "resume"
    /\ pc = "returned"
    /\ Len(parked) < 2
    /\ parked' = Append(parked, Frame)
    /\ ResumeInvocation(InitFrame)
    /\ UNCHANGED <<scenario, server, cancelled>>

InitResume ==
    /\ InitInvocation
    /\ scenario = "resume"
    /\ server \in ScriptedServers
    /\ parked = << >>
    /\ cancelled = NoneInt

NextResume ==
    \/ set_access_control_recursive
    \/ update_access_control_recursive
    \/ remove_access_control_recursive
    \/ BatchReturns
    \/ BatchFails
    \/ CallbackReturns
    \/ StartNext

SpecResume == InitResume /\ [][NextResume]_vars

\* ------------------------------------------------------------------ termination
\* One invocation whose awaited calls all return: the batch call answers
\* with (headers, resp) and does not raise, the progress callback completes.
NextLive ==
    \/ set_access_control_recursive
    \/ update_access_control_recursive
    \/ remove_access_control_recursive
    \/ BatchReturns
    \/ CallbackReturns

\* An awaited call that can return does return.
Fairness == WF_vars(BatchReturns) /\ WF_vars(CallbackReturns)

InitLive ==
    /\ InitInvocation
    /\ scenario = "live"
    /\ server = NoServer
    /\ parked = << >>
    /\ cancelled = NoneInt

SpecLive == InitLive /\ [][NextLive]_vars /\ Fairness

\* ------------------------------------------------------------------ history
\* Element-wise sum of the counts of the first n responses.
RECURSIVE SumCounters(_)
SumCounters(n) ==
    IF n = 0 THEN AccessControlChangeCounters(0, 0, 0)
    ELSE LET rest == SumCounters(n - 1)
             r == responses[n].resp
         IN AccessControlChangeCounters(
                rest.directories_successful + r.directories_successful,
                rest.files_successful + r.files_successful,
                rest.failure_count + r.failure_count)

\* The counts of response n alone.
BatchCounters(n) ==
    AccessControlChangeCounters(responses[n].resp.directories_successful,
                                responses[n].resp.files_successful,
                                responses[n].resp.failure_count)

\* The most recent non-null continuation token among the first n responses,
\* None when there is none.
RECURSIVE LastNonNullToken(_)
LastNonNullToken(n) ==
    IF n = 0 THEN None
    ELSE IF responses[n].continuation # None THEN responses[n].continuation
    ELSE LastNonNullToken(n - 1)

SomeBatchFailed == \E i \in 1 .. Len(responses) : responses[i].resp.failure_count > 0

Returned == pc = "returned"

\* ------------------------------------------------------------------ claims
\* C1: the counters of the returned AccessControlChangeResult are the
\* element-wise sum of the counts of all batches the run consumed.
C1_CountersAreSum ==
    Returned => /\ Len(responses) >= 1
                /\ result.counters = SumCounters(Len(responses))

C1_Witness ==
    /\ Returned
    /\ Len(responses) = 3
    /\ responses[1].resp # responses[2].resp
    /\ result.counters = AccessControlChangeCounters(3, 8, 3)

\* C2: when some batch of the run reported failure_count > 0, the returned
\* continuation is the most recent non-null token any batch returned, also
\* when the last batch's own token was null.
C2_FailureReturnsLastNonNull ==
    (Returned /\ SomeBatchFailed) =>
        result.continuation = LastNonNullToken(Len(responses))

C2_Witness ==
    /\ Returned
    /\ Len(responses) = 2
    /\ BatchCounters(1) = AccessControlChangeCounters(2, 5, 1)
    /\ responses[1].continuation = "TOK1"
    /\ BatchCounters(2) = AccessControlChangeCounters(1, 0, 0)
    /\ responses[2].continuation = None
    /\ result = AccessControlChangeResult(AccessControlChangeCounters(3, 5, 1), "TOK1")

\* C3: when every batch of the run reported failure_count = 0, the returned
\* continuation is the token of the last batch call issued: the token of
\* batch k when the run stopped on max_batch = k, and null after a server
\* that ended the walk with a null token.
C3_CleanReturnsLastBatchToken ==
    (Returned /\ ~SomeBatchFailed) =>
        /\ Len(requests) = Len(responses)
        /\ result.continuation = responses[Len(responses)].continuation

C3_Witness ==
    /\ Returned
    /\ ~SomeBatchFailed
    /\ Len(responses) = 2
    /\ responses[1].continuation = "TOK1"
    /\ responses[2].continuation = None
    /\ result.continuation = None

\* C4: with max_batch = k >= 1 and a batch k that still returns a non-null
\* token, exactly k batch calls are made; once batch k's iteration is over
\* the loop has stopped with continue_operation false and a result is
\* returned.
C4_StopsAtMaxBatch ==
    (/\ max_batch >= 1
     /\ Len(responses) >= max_batch
     /\ responses[max_batch].continuation # None) =>
        /\ Len(requests) = max_batch
        /\ Len(responses) = max_batch
        /\ \/ pc = "await_callback" /\ awaiting = {CallbackWait(max_batch)}
           \/ Returned /\ ~continue_operation /\ result # NoResult

C4_Witness ==
    /\ max_batch = 2
    /\ Len(responses) = 2
    /\ responses[2].continuation = "TOK1"
    /\ Returned
    /\ Len(requests) = 2

\* C5: for every max_batch value k, 0 included, the number of batch calls
\* never exceeds k.
C5_NeverMoreCallsThanMaxBatch ==
    max_batch # NoneInt => Len(requests) <= max_batch

\* C6: the progress callback is invoked once per completed batch, in batch
\* order; the N-th report's aggregate counters are the sum of batches 1..N
\* and its batch counters are the counts of batch N alone.  Without a
\* callback there are no reports.
C6_OneReportPerBatch ==
    IF progress_callback
    THEN /\ Len(reports) = Len(responses)
         /\ \A n \in 1 .. Len(reports) :
               /\ reports[n].batch_counters = BatchCounters(n)
               /\ reports[n].aggregate_counters = SumCounters(n)
         /\ \A w \in awaiting : w.kind = "callback" => w.n = Len(reports)
    ELSE reports = << >>

C6_Witness ==
    /\ progress_callback
    /\ Len(reports) = 3
    /\ reports[3].batch_counters = AccessControlChangeCounters(1, 0, 0)
    /\ reports[3].aggregate_counters = AccessControlChangeCounters(3, 8, 3)
    /\ reports[2].aggregate_counters = AccessControlChangeCounters(2, 8, 3)

\* C7: an entry operation called with an empty or missing ACL raises the
\* validation error with no batch call made, no progress report delivered
\* and no result produced.
C7_EmptyAclRaisesFirst ==
    (invoked # NotInvoked /\ invoked.acl \in {None, ""}) =>
        /\ pc = "raised"
        /\ error = "ValueError"
        /\ requests = << >>
        /\ reports = << >>
        /\ awaiting = {}
        /\ result = NoResult

C7_Witness ==
    /\ invoked.operation = "remove_access_control_recursive"
    /\ invoked.acl = ""
    /\ error = "ValueError"

\* C8: once a batch call has failed with a remote error the run has ended
\* with that error raised: the failed call is the last request sent (no
\* retry, no later call), nothing is awaited and no result exists.
C8_RemoteErrorAborts ==
    failed_calls # {} =>
        /\ pc = "raised"
        /\ error = process_storage_error("StorageErrorException")
        /\ failed_calls = {Len(requests)}
        /\ Len(requests) = Len(responses) + 1
        /\ awaiting = {}
        /\ result = NoResult
        /\ ~ENABLED Next

C8_Witness ==
    /\ failed_calls = {3}
    /\ Len(responses) = 2
    /\ pc = "raised"

C8_WitnessFirstCall ==
    /\ failed_calls = {1}
    /\ pc = "raised"

\* C9 as stated: after a batch that reported failure_count > 0 and returned
\* a non-null token, with the cap not reached, the next batch call is
\* issued (once the batch's progress callback has completed).
BatchFollowedUp(n) ==
    \/ Len(requests) > n
    \/ pc = "await_callback" /\ Len(reports) = n

C9_NonNullTokenContinues ==
    \A n \in 1 .. Len(responses) :
        (/\ responses[n].resp.failure_count > 0
         /\ responses[n].continuation # None
         /\ ~(max_batch # NoneInt /\ n = max_batch)) => BatchFollowedUp(n)

\* C9 amended: a batch that reports failure_count > 0 raises nothing; if it
\* returned a non-null and non-empty token and the cap is not reached the
\* next batch call is issued, otherwise the run returns, with the failures
\* counted in the result.
C9_PartialFailureNotFatal ==
    /\ \A n \in 1 .. Len(responses) :
          responses[n].resp.failure_count > 0 =>
             /\ IF bool(responses[n].continuation)
                   /\ ~(max_batch # NoneInt /\ n = max_batch)
                THEN BatchFollowedUp(n)
                ELSE \/ pc = "await_callback" /\ Len(reports) = n
                     \/ Returned /\ Len(requests) = n
             /\ error # None => failed_calls # {}
    /\ (Returned /\ SomeBatchFailed) => result.counters.failure_count > 0

C9_Witness ==
    /\ Returned
    /\ Len(requests) = 3
    /\ responses[1].resp.failure_count > 0
    /\ responses[1].continuation = "TOK1"
    /\ responses[2].resp.failure_count > 0
    /\ responses[3].continuation = None
    /\ result.counters.failure_count > 0

\* C10: the loop is strictly sequential.  At most one wait of the
\* invocation is outstanding; while batch call N+1 is outstanding, batches
\* 1..N have returned, are in the totals, and their progress callbacks have
\* all completed.
C10_StrictlySequential ==
    /\ Cardinality(awaiting) <= 1
    /\ pc = "await_batch" =>
          LET n == Len(requests) - 1
          IN /\ awaiting = {BatchWait(n + 1)}
             /\ Len(responses) = n
             /\ batch_count = n
             /\ AccessControlChangeCounters(total_directories_successful,
                                            total_files_success,
                                            total_failure_count) = SumCounters(n)
             /\ Len(reports) = (IF progress_callback THEN n ELSE 0)
    /\ pc = "await_callback" =>
          /\ awaiting = {CallbackWait(Len(responses))}
          /\ Len(requests) = Len(responses)
    /\ pc \in {"start", "returned", "raised"} => awaiting = {}

C10_Witness ==
    /\ pc = "await_batch"
    /\ progress_callback
    /\ Len(requests) = 3
    /\ Len(reports) = 2

\* The most recent non-null and non-empty continuation token among the
\* first n responses, None when there is none.
RECURSIVE LastNonEmptyToken(_)
LastNonEmptyToken(n) ==
    IF n = 0 THEN None
    ELSE IF bool(responses[n].continuation) THEN responses[n].continuation
    ELSE LastNonEmptyToken(n - 1)

\* C15: last_continuation_token is overwritten only by a token that is
\* non-null and non-empty: it is always the most recent such token a batch
\* returned, and an empty token leaves it alone.
C15_LastTokenOnlyNonEmpty ==
    pc # "start" => last_continuation_token = LastNonEmptyToken(Len(responses))

\* C16: the first batch call carries the caller's continuation, and call
\* N+1 carries the token batch call N returned.
C16_ContinuationChaining ==
    \A i \in 1 .. Len(requests) :
        requests[i].continuation =
            IF i = 1 THEN invoked.continuation ELSE responses[i - 1].continuation

C16_Witness ==
    /\ Len(requests) = 3
    /\ invoked.continuation = "TOK0"
    /\ requests[1].continuation = "TOK0"
    /\ requests[2].continuation = "TOK2"
    /\ requests[3].continuation = "TOK1"

\* C17: every batch call of the run carries the mode, the ACL text and the
\* batch size of the first one; only the continuation differs.
C17_OnlyContinuationChanges ==
    \A i \in 1 .. Len(requests) :
        /\ requests[i].mode = requests[1].mode
        /\ requests[i].acl = requests[1].acl
        /\ requests[i].max_records = requests[1].max_records
        /\ requests[i] = [requests[1] EXCEPT !.continuation = requests[i].continuation]

C17_Witness ==
    /\ Len(requests) = 3
    /\ requests[3].mode = "modify"
    /\ requests[3].max_records = 2000
    /\ requests[3].continuation # requests[1].continuation
    /\ requests[3].continuation # requests[2].continuation

\* C18: the continuation of the N-th progress report is the most recent
\* non-null token among batches 1..N, null if there is none.
C18_ReportCarriesLastToken ==
    \A n \in 1 .. Len(reports) : reports[n].continuation = LastNonNullToken(n)

\* The report of a final batch with a null token carries the previous
\* batch's token while the result returns null.
C18_Witness ==
    /\ Returned
    /\ Len(reports) = 2
    /\ responses[1].continuation = "TOK1"
    /\ responses[2].continuation = None
    /\ reports[2].continuation = "TOK1"
    /\ result.continuation = None

\* C19: a run of one batch that reports failures and a null token returns
\* a null continuation, also when the caller supplied a continuation.
C19_SingleFailedBatchReturnsNull ==
    (/\ Returned
     /\ Len(responses) = 1
     /\ responses[1].resp.failure_count > 0
     /\ responses[1].continuation = None) => result.continuation = None

C19_Witness ==
    /\ Returned
    /\ Len(responses) = 1
    /\ responses[1].resp.failure_count > 0
    /\ responses[1].continuation = None
    /\ invoked.continuation = "TOK0"
    /\ requests[1].continuation = "TOK0"
    /\ result.continuation = None

\* The loop stopped because the max_batch cap was reached.
StoppedOnCap == max_batch # NoneInt /\ batch_count = max_batch

\* C20 as stated: with zero accumulated failures the returned continuation
\* is non-null only if the loop stopped on the cap, and null when the
\* server ended the walk.
C20_CleanNonNullOnlyOnCap ==
    (Returned /\ total_failure_count = 0) =>
        /\ result.continuation # None => StoppedOnCap
        /\ ~bool(responses[Len(responses)].continuation) => result.continuation = None

\* C20 amended: with zero accumulated failures the returned continuation is
\* non-empty only if the loop stopped on the cap; when the server ended the
\* walk it is the null or empty token the server sent.
C20_CleanNonEmptyOnlyOnCap ==
    (Returned /\ total_failure_count = 0) =>
        /\ bool(result.continuation) => StoppedOnCap
        /\ ~bool(responses[Len(responses)].continuation) =>
              /\ ~bool(result.continuation)
              /\ result.continuation = responses[Len(responses)].continuation

C20_Witness ==
    /\ Returned
    /\ total_failure_count = 0
    /\ Len(responses) = 2
    /\ max_batch = 2
    /\ responses[1].continuation = "TOK1"
    /\ result.continuation = "TOK2"

\* C12: once the caller has cancelled the run, no further batch call is
\* issued and no result exists: the run has ended with the cancellation
\* raised and the totals of the completed batches are gone with it.
C12_CancelDiscardsTotals ==
    cancelled # NoneInt =>
        /\ pc = "raised"
        /\ error = "CancelledError"
        /\ result = NoResult
        /\ Len(requests) = cancelled
        /\ awaiting = {}
        /\ ~ENABLED NextCancel

\* Cancelled in the third batch's progress callback, with totals behind it.
C12_Witness ==
    /\ cancelled = 3
    /\ Len(responses) = 3
    /\ Len(reports) = 3
    /\ total_files_success > 0
    /\ pc = "raised"
    /\ result = NoResult

\* Cancelled while the second batch call is in flight.
C12_WitnessInBatchCall ==
    /\ cancelled = 2
    /\ Len(responses) = 1
    /\ pc = "raised"

\* ------------------------------------------------------------------ runs compared
\* The mode string each entry operation passes on.
ModeOf(operation) ==
    CASE operation = "set_access_control_recursive" -> "set"
      [] operation = "update_access_control_recursive" -> "modify"
      [] operation = "remove_access_control_recursive" -> "remove"
      [] OTHER -> None

\* What the running invocation sends, reports and returns when it is the
\* client's only invocation, as a function of its own arguments and of the
\* responses it has received.
AloneRequest(i) ==
    _set_access_control_recursive_options(
        ModeOf(invoked.operation), invoked.acl,
        IF i = 1 THEN invoked.continuation ELSE responses[i - 1].continuation,
        invoked.batch_size)

AloneReport(n) ==
    AccessControlChanges(responses[n].resp, SumCounters(n), LastNonNullToken(n))

AloneResult ==
    LET n == Len(responses)
    IN AccessControlChangeResult(
           SumCounters(n),
           IF SumCounters(n).failure_count > 0 THEN LastNonNullToken(n)
           ELSE responses[n].continuation)

RunsAsAlone ==
    (pc # "start" /\ error # "ValueError") =>
        /\ max_batch = invoked.max_batch
        /\ progress_callback = invoked.progress_callback
        /\ \A i \in 1 .. Len(requests) : requests[i] = AloneRequest(i)
        /\ reports = IF invoked.progress_callback
                     THEN [n \in 1 .. Len(responses) |-> AloneReport(n)]
                     ELSE << >>
        /\ batch_count = Len(responses)
        /\ AccessControlChangeCounters(total_directories_successful,
                                       total_files_success,
                                       total_failure_count) = SumCounters(Len(responses))
        /\ Returned => result = AloneResult
        /\ Len(requests) \in {Len(responses), Len(responses) + 1}

\* C11: with a second invocation of the client interleaved at every await,
\* the running invocation's requests, progress reports and result are what
\* they are when it runs alone against the same responses.
C11_InvocationsIndependent ==
    scenario = "pair" => RunsAsAlone

\* Both invocations have returned after interleaved batches of their own.
C11_Witness ==
    /\ scenario = "pair"
    /\ Returned
    /\ parked[1].pc = "returned"
    /\ Len(responses) = 2
    /\ Len(parked[1].responses) = 2
    /\ responses # parked[1].responses
    /\ invoked.operation # parked[1].invoked.operation
    /\ result.counters # parked[1].result.counters

\* ------------------------------------------------------------------ C13
Uncapped == parked[1]

Capped == parked[2]

\* The three runs of the resume scenario have returned and no batch the
\* uncapped run visited reported a failure.
ResumeCompared ==
    /\ scenario = "resume"
    /\ Len(parked) = 2
    /\ Returned
    /\ Uncapped.result.counters.failure_count = 0

ResumeComposes ==
    /\ Capped.responses \o responses = Uncapped.responses
    /\ AccessControlChangeCounters(
           Capped.result.counters.directories_successful
               + result.counters.directories_successful,
           Capped.result.counters.files_successful + result.counters.files_successful,
           Capped.result.counters.failure_count + result.counters.failure_count)
         = Uncapped.result.counters
    /\ result.continuation = None

Other == parked[1]

\* The two invocations were called with the same arguments, one with a
\* progress callback and one without.
SameCallButObserver ==
    /\ scenario = "pair"
    /\ pc # "start"
    /\ Other.pc # "start"
    /\ invoked.progress_callback # Other.invoked.progress_callback
    /\ [invoked EXCEPT !.progress_callback = FALSE]
         = [Other.invoked EXCEPT !.progress_callback = FALSE]

\* The two invocations received the same first n responses.
SameResponses(n) ==
    /\ Len(responses) >= n
    /\ Len(Other.responses) >= n
    /\ \A j \in 1 .. n : responses[j] = Other.responses[j]

\* C14: a run with a progress callback and a run without one, given the
\* same arguments and the same server responses, send the same sequence of
\* batch requests and return the same result.
C14_ObserverHasNoInfluence ==
    SameCallButObserver =>
        /\ \A i \in 1 .. Len(requests) :
              (i <= Len(Other.requests) /\ SameResponses(i - 1)) =>
                  requests[i] = Other.requests[i]
        /\ (Returned /\ SameResponses(Len(responses))) =>
              /\ Len(Other.requests) = Len(requests)
              /\ Other.pc = "returned" => Other.result = result

C14_Witness ==
    /\ SameCallButObserver
    /\ Returned
    /\ Other.pc = "returned"
    /\ progress_callback
    /\ Len(reports) = 2
    /\ Other.reports = << >>
    /\ responses = Other.responses
    /\ requests = Other.requests
    /\ result = Other.result
    /\ result.counters.failure_count > 0

\* ------------------------------------------------------------------ C21
\* The failed entries the server returned for batch n.
FailedEntries(n) == responses[n].resp.failed_entries

\* C21: the batch-failure list of the n-th progress report has the length
\* and the order of the failed entries the server returned for batch n; each
\* element keeps the entry's name and error message, and is_directory is
\* true exactly when the entry's type is 'DIRECTORY'.
C21_BatchFailuresMirrorServer ==
    \A n \in 1 .. Len(reports) :
        /\ n <= Len(responses)
        /\ Len(reports[n].batch_failures) = Len(FailedEntries(n))
        /\ \A i \in 1 .. Len(FailedEntries(n)) :
              /\ reports[n].batch_failures[i].name = FailedEntries(n)[i].name
              /\ reports[n].batch_failures[i].error_message
                    = FailedEntries(n)[i].error_message
              /\ reports[n].batch_failures[i].is_directory
                    = (FailedEntries(n)[i].type = "DIRECTORY")

\* A second report lists a failed directory before a failed file.
C21_Witness ==
    /\ Len(reports) = 2
    /\ Len(reports[1].batch_failures) = 1
    /\ Len(reports[2].batch_failures) = 2
    /\ reports[2].batch_failures[1].is_directory
    /\ ~reports[2].batch_failures[2].is_directory
    /\ reports[2].batch_failures[1].name = "d/sub"
    /\ FailedEntries(2)[2].type = "FILE"

\* ------------------------------------------------------------------ C22
\* The continuation header of the last batch a run received.
LastBatchToken == responses[Len(responses)].continuation

\* C22: when the last batch of a run returned a non-null token, the
\* result's continuation is that token whatever the accumulated failure
\* count: the failure branch (last_continuation_token) and the no-failure
\* branch (current_continuation_token) of the return hold the same value.
\* A run whose last token is non-empty stopped on the max_batch cap.
C22_NonNullLastTokenReturned ==
    (Returned /\ LastBatchToken # None) =>
        /\ result.continuation = LastBatchToken
        /\ last_continuation_token = current_continuation_token
        /\ bool(LastBatchToken) => StoppedOnCap

\* A capped run with failures whose two batches returned different tokens
\* returns the second one.
C22_Witness ==
    /\ Returned
    /\ StoppedOnCap
    /\ Len(responses) = 2
    /\ responses[1].continuation = "TOK1"
    /\ LastBatchToken = "TOK2"
    /\ total_failure_count > 0
    /\ result.continuation = "TOK2"

\* ------------------------------------------------------------------ C23
\* The loop of the invocation has been entered, without or with a cap.
UncappedRun == pc \in {"await_batch", "await_callback", "returned"} /\ max_batch = NoneInt

CappedRun ==
    pc \in {"await_batch", "await_callback", "returned"} /\ max_batch >= 1

\* The server has sent a null or empty continuation token.
WalkEnded == \E i \in 1 .. Len(responses) : ~bool(responses[i].continuation)

\* C23: when every batch call and every progress callback returns, a run
\* with max_batch = k >= 1 returns a result after at most k batch calls; a
\* run without a cap returns a result once the server has sent a null or
\* empty continuation token, and only then: as long as every token was
\* non-empty it does not return.
C23_Termination ==
    /\ [](CappedRun => Len(requests) <= max_batch)
    /\ (CappedRun ~> (Returned /\ Len(requests) <= max_batch))
    /\ ((UncappedRun /\ WalkEnded) ~> Returned)
    /\ []((UncappedRun /\ ~WalkEnded) => ~Returned)
    /\ []((UncappedRun /\ Returned) => ~bool(responses[Len(responses)].continuation))

\* A run capped at two batches has returned after its second batch call
\* although the server offered more.
C23_Witness ==
    /\ CappedRun
    /\ Returned
    /\ max_batch = 2
    /\ Len(requests) = 2
    /\ bool(responses[2].continuation)
    /\ progress_callback
    /\ Len(reports) = 2

\* ------------------------------------------------------------------ C24
\* C24: every batch call after the first one of a run carries a non-null,
\* non-empty continuation token, and once the server has answered a batch
\* with a null or empty token no further batch call is issued.
C24_FollowUpCarriesToken ==
    /\ \A i \in 2 .. Len(requests) :
          /\ requests[i].continuation # None
          /\ requests[i].continuation # ""
    /\ \A n \in 1 .. Len(responses) :
          ~bool(responses[n].continuation) => Len(requests) = n

\* A run started without a continuation made three batch calls and
\* returned when the third batch came back with the empty token.
C24_Witness ==
    /\ Returned
    /\ invoked.continuation = None
    /\ Len(requests) = 3
    /\ requests[1].continuation = None
    /\ requests[2].continuation = "TOK1"
    /\ requests[3].continuation = "TOK2"
    /\ responses[3].continuation = ""

\* ------------------------------------------------------------------ C25
\* C25: when the j-th batch call (j > 1) fails with a remote error, the
\* progress observer has received exactly j-1 reports, the n-th of them for
\* batch n, and none for batch j or later; no result carrying the totals of
\* the completed batches is returned.
C25_FailureLeavesOnlyReports ==
    \A j \in failed_calls :
        j > 1 =>
            /\ Len(requests) = j
            /\ Len(responses) = j - 1
            /\ progress_callback =>
                  /\ Len(reports) = j - 1
                  /\ \A n \in 1 .. Len(reports) :
                        /\ reports[n].batch_counters = BatchCounters(n)
                        /\ reports[n].aggregate_counters = SumCounters(n)
            /\ result = NoResult
            /\ ~Returned

\* The third batch call failed after two batches were reported to the
\* observer; their totals are in the second report and nowhere else.
C25_Witness ==
    /\ failed_calls = {3}
    /\ pc = "raised"
    /\ progress_callback
    /\ Len(reports) = 2
    /\ reports[2].aggregate_counters.files_successful > 0
    /\ reports[2].aggregate_counters.failure_count > 0
    /\ result = NoResult

====
